---- MODULE Spec2Model ----
(***************************************************************************)
(* Model of ingest_telegram_to_supabase.py: the label parser parse_movie,  *)
(* the cover uploader, the upsert and the sync driver main.                *)
(*                                                                         *)
(* A Python str is a sequence of characters; a character is a one-element  *)
(* TLA+ string, a non-ASCII one being written by its code point            *)
(* ("U+FF1A" is the full-width colon).  A dict, and a dataclass whose      *)
(* unset attributes are None, is a function whose domain is the set of     *)
(* keys that are present (attributes that are not None).                   *)
(***************************************************************************)
EXTENDS Integers, Sequences, FiniteSets, TLC

\* ------------------------------------------------------------------------
\* Characters and the str methods the program uses
\* ------------------------------------------------------------------------

UpperChars == <<"A", "B", "C", "D", "E", "F", "G", "H", "I", "J", "K", "L", "M",
                "N", "O", "P", "Q", "R", "S", "T", "U", "V", "W", "X", "Y", "Z">>

LowerChars == <<"a", "b", "c", "d", "e", "f", "g", "h", "i", "j", "k", "l", "m",
                "n", "o", "p", "q", "r", "s", "t", "u", "v", "w", "x", "y", "z">>

\* re.IGNORECASE compares characters up to case.
Lower(c) ==
    IF \E i \in 1..Len(UpperChars) : UpperChars[i] = c
    THEN LowerChars[CHOOSE i \in 1..Len(UpperChars) : UpperChars[i] = c]
    ELSE c

\* The whitespace of str.strip() and of the regex class \s.
IsSpace(c) == c \in {" ", "\t", "\n", "\r"}

\* The line boundary of str.splitlines() (the model's alphabet has no other).
IsLineBreak(c) == c = "\n"

Range(s) == {s[i] : i \in 1..Len(s)}

\* s[:n]
Take(s, n) == SubSeq(s, 1, IF Len(s) < n THEN Len(s) ELSE n)

\* s[j-1:], for a 1-based position j
From(s, j) == SubSeq(s, j, Len(s))

RECURSIVE LStrip(_)
LStrip(s) == IF s # <<>> /\ IsSpace(Head(s)) THEN LStrip(Tail(s)) ELSE s

RECURSIVE RStrip(_)
RStrip(s) ==
    IF s # <<>> /\ IsSpace(s[Len(s)]) THEN RStrip(SubSeq(s, 1, Len(s) - 1)) ELSE s

\* str.strip()
Strip(s) == RStrip(LStrip(s))

\* str.splitlines(): the pieces between line breaks, no empty last piece.
RECURSIVE SplitLines(_)
SplitLines(s) ==
    LET breaks == {i \in 1..Len(s) : IsLineBreak(s[i])}
    IN  IF breaks = {} THEN (IF s = <<>> THEN <<>> ELSE <<s>>)
        ELSE LET i == CHOOSE j \in breaks : \A k \in breaks : j <= k
             IN  <<SubSeq(s, 1, i - 1)>> \o SplitLines(SubSeq(s, i + 1, Len(s)))

\* re.sub(r"\s+", " ", v): every maximal run of whitespace becomes one space
\* (a whitespace character is kept, as a space, when it starts a run).
SubSpaces(s) ==
    LET marked == [i \in 1..Len(s) |->
                     [c |-> IF IsSpace(s[i]) THEN " " ELSE s[i],
                      keep |-> ~(IsSpace(s[i]) /\ i > 1 /\ IsSpace(s[i - 1]))]]
        kept == SelectSeq(marked, LAMBDA e : e.keep)
    IN  [i \in 1..Len(kept) |-> kept[i].c]

\* re.sub(r"\s+", " ", v).strip()
Compact(s) == Strip(SubSpaces(s))

\* ------------------------------------------------------------------------
\* The label patterns
\* ------------------------------------------------------------------------

\* Pattern items: a literal, a character class, an optional group, \s*.
Lit(s) == [t |-> "lit", s |-> s]
Opt(s) == [t |-> "opt", s |-> s]
Ws == [t |-> "ws", s |-> <<>>]
\* [:U+FF1A]
Colon == [t |-> "cls", s |-> <<":", "U+FF1A">>]

\* ^<label>[:U+FF1A]\s*(.+)$
PatAny(label) == [items |-> label \o <<Colon, Ws>>, cap |-> "any"]

\* ^<label>[:U+FF1A]\s*(\S+)$
PatNoSpace(label) == [items |-> label \o <<Colon, Ws>>, cap |-> "nospace"]

\* The dict FIELD_PATTERNS, in its insertion order.
FIELD_PATTERNS == <<
    [key |-> "title", pats |-> <<
        PatAny(<<Lit(<<"T", "i", "t", "l", "e">>)>>),
        PatAny(<<Lit(<<"U+0639", "U+0646", "U+0648", "U+0627", "U+0646">>)>>) >>],
    [key |-> "link", pats |-> <<
        PatNoSpace(<<Lit(<<"L", "i", "n", "k">>)>>),
        PatNoSpace(<<Lit(<<"U+0644", "U+06CC", "U+0646", "U+06A9">>)>>) >>],
    [key |-> "synopsis", pats |-> <<
        PatAny(<<Lit(<<"S", "y", "n", "o", "p", "s", "i", "s">>)>>),
        PatAny(<<Lit(<<"U+062E", "U+0644", "U+0627", "U+0635", "U+0647">>)>>) >>],
    [key |-> "director", pats |-> <<
        PatAny(<<Lit(<<"D", "i", "r", "e", "c", "t", "o", "r">>)>>),
        PatAny(<<Lit(<<"U+06A9", "U+0627", "U+0631", "U+06AF", "U+0631", "U+062F",
                       "U+0627", "U+0646">>)>>) >>],
    [key |-> "product", pats |-> <<
        PatAny(<<Lit(<<"P", "r", "o", "d", "u", "c", "t">>), Opt(<<"i", "o", "n">>)>>),
        PatAny(<<Lit(<<"U+0645", "U+062D", "U+0635", "U+0648", "U+0644">>)>>) >>],
    [key |-> "stars", pats |-> <<
        PatAny(<<Lit(<<"S", "t", "a", "r">>), Opt(<<"s">>)>>),
        PatAny(<<Lit(<<"U+0628", "U+0627", "U+0632", "U+06CC", "U+06AF", "U+0631",
                       "U+0627", "U+0646">>)>>) >>],
    [key |-> "imdb", pats |-> <<
        PatAny(<<Lit(<<"I", "M", "D", "B">>)>>),
        PatAny(<<Lit(<<"U+0627", "U+0645", "U+062A", "U+06CC", "U+0627", "U+0632">>),
                 Ws, Lit(<<"I", "M", "D", "B">>)>>) >>],
    [key |-> "release_info", pats |-> <<
        PatAny(<<Lit(<<"R", "e", "l", "e", "a", "s", "e">>),
                 Opt(<<" ", "I", "n", "f", "o">>)>>),
        PatAny(<<Lit(<<"U+0633", "U+0627", "U+0644">>),
                 Opt(<<" ", "U+0627", "U+0646", "U+062A", "U+0634", "U+0627",
                       "U+0631">>)>>) >>],
    [key |-> "genre", pats |-> <<
        PatAny(<<Lit(<<"G", "e", "n", "r", "e">>)>>),
        PatAny(<<Lit(<<"U+0698", "U+0627", "U+0646", "U+0631">>)>>) >> ] >>

\* ------------------------------------------------------------------------
\* re.match(pat, ln, flags=re.IGNORECASE)
\* ------------------------------------------------------------------------

NoMatch == [ok |-> FALSE, g |-> <<>>]

\* Whether s continues at position j with the characters of w, up to case.
HasPrefixCI(s, j, w) ==
    /\ j + Len(w) - 1 <= Len(s)
    /\ \A k \in 1..Len(w) : Lower(s[j + k - 1]) = Lower(w[k])

\* The length of the whitespace run of s that starts at position j.
RECURSIVE WsRun(_, _)
WsRun(s, j) == IF j <= Len(s) /\ IsSpace(s[j]) THEN 1 + WsRun(s, j + 1) ELSE 0

\* The group and the closing $: (.+)$ takes the rest of the line, which must be
\* non-empty and hold no newline; (\S+)$ also wants it free of whitespace.
Capture(cap, s, j) ==
    LET rest == From(s, j)
    IN  IF /\ rest # <<>>
           /\ \A k \in 1..Len(rest) : rest[k] # "\n"
           /\ (cap = "nospace" => \A k \in 1..Len(rest) : ~IsSpace(rest[k]))
        THEN [ok |-> TRUE, g |-> rest]
        ELSE NoMatch

\* The backtracking matcher: items i.. of pat against s from position j; an
\* optional group and \s* are greedy and give way when the rest fails.
RECURSIVE Match(_, _, _, _)
RECURSIVE MatchWs(_, _, _, _, _)
Match(pat, i, s, j) ==
    IF i > Len(pat.items) THEN Capture(pat.cap, s, j)
    ELSE LET it == pat.items[i]
         IN  CASE it.t = "lit" ->
                     IF HasPrefixCI(s, j, it.s)
                     THEN Match(pat, i + 1, s, j + Len(it.s))
                     ELSE NoMatch
               [] it.t = "cls" ->
                     IF j <= Len(s) /\ s[j] \in Range(it.s)
                     THEN Match(pat, i + 1, s, j + 1)
                     ELSE NoMatch
               [] it.t = "opt" ->
                     LET r == IF HasPrefixCI(s, j, it.s)
                              THEN Match(pat, i + 1, s, j + Len(it.s))
                              ELSE NoMatch
                     IN  IF r.ok THEN r ELSE Match(pat, i + 1, s, j)
               [] it.t = "ws" -> MatchWs(pat, i, s, j, WsRun(s, j))

MatchWs(pat, i, s, j, n) ==
    LET r == Match(pat, i + 1, s, j + n)
    IN  IF r.ok THEN r
        ELSE IF n = 0 THEN NoMatch
        ELSE MatchWs(pat, i, s, j, n - 1)

ReMatch(pat, ln) == Match(pat, 1, ln, 1)

\* ------------------------------------------------------------------------
\* parse_movie
\* ------------------------------------------------------------------------

\* The bound of the fallback title, lines[0][:200].
TitleMax == 200

\* fields[key] = v
Put(f, key, v) == [k \in DOMAIN f \cup {key} |-> IF k = key THEN v ELSE f[k]]

EmptyDict == [k \in {} |-> <<>>]

\* [ln.strip() for ln in text.splitlines() if ln.strip()]
RECURSIVE StripNonEmpty(_)
StripNonEmpty(ls) ==
    IF ls = <<>> THEN <<>>
    ELSE IF Strip(Head(ls)) # <<>> THEN <<Strip(Head(ls))>> \o StripNonEmpty(Tail(ls))
    ELSE StripNonEmpty(Tail(ls))

Lines(text) == StripNonEmpty(SplitLines(text))

\* The inner loop "for pat in pats": the first pattern that matches ln.
RECURSIVE FirstMatch(_, _, _)
FirstMatch(pats, pi, ln) ==
    IF pi > Len(pats) THEN NoMatch
    ELSE LET m == ReMatch(pats[pi], ln)
         IN  IF m.ok THEN m ELSE FirstMatch(pats, pi + 1, ln)

\* The test that ends the loop over the keys for one line.
StopsAt(key, f) == key \in DOMAIN f

\* The loop "for key, pats in FIELD_PATTERNS.items()" for one line, from the
\* ki-th key on: a match stores m.group(1).strip() under the key, and the loop
\* ends at the first key that is in fields once its patterns were tried.
RECURSIVE ScanKeys(_, _, _)
ScanKeys(f, ln, ki) ==
    IF ki > Len(FIELD_PATTERNS) THEN f
    ELSE LET key == FIELD_PATTERNS[ki].key
             m == FirstMatch(FIELD_PATTERNS[ki].pats, 1, ln)
             f2 == IF m.ok THEN Put(f, key, Strip(m.g)) ELSE f
         IN  IF StopsAt(key, f2) THEN f2 ELSE ScanKeys(f2, ln, ki + 1)

\* The loop "for ln in lines".
RECURSIVE ScanLines(_, _)
ScanLines(f, ls) ==
    IF ls = <<>> THEN f ELSE ScanLines(ScanKeys(f, Head(ls), 1), Tail(ls))

\* The fallback without the cut: fields["title"] = lines[0]
TitleFallbackUncut(f, ls) ==
    IF "title" \notin DOMAIN f /\ ls # <<>> THEN Put(f, "title", ls[1]) ELSE f

\* if "title" not in fields and lines: fields["title"] = lines[0][:200]
TitleFallback(f, ls) ==
    IF "title" \notin DOMAIN f /\ ls # <<>>
    THEN Put(f, "title", Take(ls[1], TitleMax))
    ELSE f

\* The closing loop: every value has its whitespace compacted.
CompactAll(f) == [k \in DOMAIN f |-> Compact(f[k])]

parse_movie(text) ==
    LET ls == Lines(text)
    IN  CompactAll(TitleFallback(ScanLines(EmptyDict, ls), ls))

\* not (msg.message and msg.message.strip()): the body is skipped
IsBlank(text) == Strip(text) = <<>>

\* ------------------------------------------------------------------------
\* datetime and timedelta
\* ------------------------------------------------------------------------

\* A naive datetime is its day ordinal d (1 is 0001-01-01, datetime.min) and
\* its minute of the day m; a timedelta is normalised to days and minutes.
MinutesPerDay == 24 * 60

\* timedelta.max.days: a larger magnitude raises OverflowError.
MaxTimedeltaDays == 10^9 - 1

Time(d, m) == [d |-> d, m |-> m]

\* a < b on naive datetimes
Before(a, b) == a.d < b.d \/ (a.d = b.d /\ a.m < b.m)

\* t + k minutes, k of either sign
ShiftMinutes(t, k) ==
    LET total == t.m + k
    IN  Time(t.d + (total \div MinutesPerDay), total % MinutesPerDay)

\* timedelta(days=v), timedelta(hours=v), timedelta(minutes=v)
Timedelta(unit, v) ==
    LET days == CASE unit = "d" -> v
                  [] unit = "h" -> v \div 24
                  [] unit = "m" -> v \div MinutesPerDay
        mins == CASE unit = "d" -> 0
                  [] unit = "h" -> (v % 24) * 60
                  [] unit = "m" -> v % MinutesPerDay
    IN  [ok |-> days <= MaxTimedeltaDays, days |-> days, mins |-> mins]

\* The result of a computation that may raise: ok is FALSE when it raised.
Raised == [ok |-> FALSE, t |-> Time(0, 0)]

\* now - delta: OverflowError when the result is before datetime.min.
Minus(t, delta) ==
    LET m0 == t.m - delta.mins
        d0 == t.d - delta.days - (IF m0 < 0 THEN 1 ELSE 0)
    IN  IF d0 < 1 THEN Raised
        ELSE [ok |-> TRUE, t |-> Time(d0, m0 % MinutesPerDay)]

\* msg.date.astimezone(dt.timezone.utc).replace(tzinfo=None) for an aware date,
\* msg.date itself for a naive one; tz is <<offset in minutes>> or <<>>.
AsUTC(date) ==
    IF date.tz # <<>>
    THEN ShiftMinutes(Time(date.d, date.m), 0 - date.tz[1])
    ELSE Time(date.d, date.m)

\* msg_utc.isoformat(): the rendering of the date and the time of day.
IsoFormat(t) == <<t.d, t.m \div 60, t.m % 60>>

\* ------------------------------------------------------------------------
\* The lookback window (--since)
\* ------------------------------------------------------------------------

Digits == <<"0", "1", "2", "3", "4", "5", "6", "7", "8", "9">>

IsDigit(c) == \E i \in 1..Len(Digits) : Digits[i] = c

DigitVal(c) == (CHOOSE i \in 1..Len(Digits) : Digits[i] = c) - 1

\* The length of the run of digits \d+ takes at the start of s.
RECURSIVE DigitRun(_, _)
DigitRun(s, j) == IF j <= Len(s) /\ IsDigit(s[j]) THEN 1 + DigitRun(s, j + 1) ELSE 0

\* int(m.group(1))
RECURSIVE ToInt(_, _)
ToInt(s, acc) == IF s = <<>> THEN acc ELSE ToInt(Tail(s), 10 * acc + DigitVal(Head(s)))

\* The units the pattern's class [dhm] takes.
SinceUnits == {"d", "h", "m"}

\* re.match(r"(\d+)([dhm])$", s): digits, one unit letter, the end.
SinceMatch(s) ==
    LET n == DigitRun(s, 1)
    IN  IF n >= 1 /\ Len(s) = n + 1 /\ s[n + 1] \in SinceUnits
        THEN [ok |-> TRUE, val |-> ToInt(SubSeq(s, 1, n), 0), unit |-> s[n + 1]]
        ELSE [ok |-> FALSE, val |-> 0, unit |-> ""]

\* The days of the default window.
DefaultDays == 30

\* The lines from "now = utcnow()" to "since_dt = now - delta": the cutoff, or
\* the OverflowError of timedelta() or of the subtraction.
Cutoff(since, t) ==
    LET m == SinceMatch(Strip(since))
        delta == IF m.ok THEN Timedelta(m.unit, m.val)
                 ELSE Timedelta("d", DefaultDays)
    IN  IF delta.ok THEN Minus(t, delta) ELSE Raised

\* ------------------------------------------------------------------------
\* The state
\* ------------------------------------------------------------------------

VARIABLES
    clock,          \* the wall clock, UTC
    channel,        \* the channel's messages, oldest first
    table,          \* the rows of the movies table
    RLS_USER_UID,   \* the optional owner id of the configuration, <<>> if unset
    args,           \* the command line: login, since
    pc,             \* where main is
    client,         \* the channel client: "new", "connected", "disconnected"
    now,            \* main's local now
    since_dt,       \* main's local since_dt
    idx,            \* the messages iter_messages has yielded so far
    movie,          \* main's local movie
    run,            \* the number of this invocation
    ticks,          \* how often the clock has advanced
    started_at,     \* history: the clock when this invocation started
    calls           \* history: the calls of this invocation to the services

vars == <<clock, channel, table, RLS_USER_UID, args, pc, client, now, since_dt,
          idx, movie, run, ticks, started_at, calls>>

\* ------------------------------------------------------------------------
\* Bounds and inputs
\* ------------------------------------------------------------------------

\* The invocations of the script in one behaviour.
MaxRuns == 2

\* The messages of the channel.
MaxMsgs == 2

\* The advances of the clock in one behaviour.
MaxTicks == 1

\* The lines of a message body of the parser's specification.
MaxLines == 3

\* 2026-11-01 12:00 UTC
Clock0 == Time(739921, 12 * 60)

\* One advance of the clock, in minutes: an hour and a half.
TickMinutes == 60 + 30

\* --since values: one hour, seven days, an unparsable one, one that reaches
\* back before datetime.min.
SinceHour == <<"1", "h">>
SinceWeek == <<"7", "d">>
SinceBad == <<"n", "o", "t", "-", "a", "-", "w", "i", "n", "d", "o", "w">>
SinceHuge == <<"9", "9", "9", "9", "9", "9", "d">>

\* The owner id of the .env file, when it sets one.
OwnerUid == <<"7314d471-8343-44b3-9fcc-a9ae01d99725">>

\* The invocations: the command line, and RLS_USER_UID of the environment that
\* load_dotenv() reads when the script starts.
Invocations ==
    {[login |-> FALSE, since |-> SinceHour, uid |-> <<>>],
     [login |-> FALSE, since |-> SinceBad, uid |-> OwnerUid],
     [login |-> TRUE, since |-> SinceWeek, uid |-> <<>>],
     [login |-> TRUE, since |-> SinceHuge, uid |-> OwnerUid]}

\* Message bodies.
InceptionBody ==
    <<"T", "i", "t", "l", "e", ":", " ", "I", "n", "c", "e", "p", "t", "i", "o", "n", "\n",
      "D", "i", "r", "e", "c", "t", "o", "r", ":", " ", "C", ".", " ", "N", "o", "l", "a", "n", "\n",
      "G", "e", "n", "r", "e", ":", " ", "S", "c", "i", "-", "F", "i">>
PlainBody == <<" ", "H", "e", "a", "t", " ", " ", "1", "9", "9", "5", "\n", "G", "e", "n", "r", "e", ":", " ", "D", "r", "a", "m", "a">>
BlankBody == <<" ", "\n", "\t">>

\* The date of a message posted at UTC time t: naive, or aware with an offset
\* (210 minutes are +03:30).
Naive(t) == [d |-> t.d, m |-> t.m, tz |-> <<>>]
Aware(t, off) ==
    LET l == ShiftMinutes(t, off) IN [d |-> l.d, m |-> l.m, tz |-> <<off>>]

\* The messages the channel may hold, oldest first: the id, the UTC time it was
\* posted at (ten days ago, two days ago, half an hour ago, ten minutes ahead
\* of the clock), the date the client gives it, its text, its media.
MasterChannel ==
    <<[id |-> 1, posted |-> ShiftMinutes(Clock0, 0 - 10 * MinutesPerDay),
       date |-> Aware(ShiftMinutes(Clock0, 0 - 10 * MinutesPerDay), 210),
       message |-> InceptionBody, media |-> "document"],
      [id |-> 2, posted |-> ShiftMinutes(Clock0, 0 - 2 * MinutesPerDay),
       date |-> Naive(ShiftMinutes(Clock0, 0 - 2 * MinutesPerDay)),
       message |-> PlainBody, media |-> "photo"],
      [id |-> 3, posted |-> ShiftMinutes(Clock0, 0 - 30),
       date |-> Naive(ShiftMinutes(Clock0, 0 - 30)),
       message |-> BlankBody, media |-> "photo"],
      [id |-> 4, posted |-> ShiftMinutes(Clock0, 10),
       date |-> Aware(ShiftMinutes(Clock0, 10), 210),
       message |-> InceptionBody, media |-> "photo"]>>

\* The messages of ms whose position is in keep, in their order.
RECURSIVE Pick(_, _, _)
Pick(ms, keep, i) ==
    IF i > Len(ms) THEN <<>>
    ELSE (IF i \in keep THEN <<ms[i]>> ELSE <<>>) \o Pick(ms, keep, i + 1)

\* A channel holds at most MaxMsgs of them (the others were never posted, or
\* were deleted).
Channels ==
    {Pick(MasterChannel, keep, 1) :
        keep \in {k \in SUBSET (1..Len(MasterChannel)) : Cardinality(k) <= MaxMsgs}}

\* ------------------------------------------------------------------------
\* The record, the uploader and the upsert
\* ------------------------------------------------------------------------

\* movie = Movie(**fields); movie.tg_message_id = msg.id;
\* movie.tg_date = msg_utc.isoformat()
BuildMovie(msg, utc) ==
    Put(Put(parse_movie(msg.message), "tg_message_id", msg.id), "tg_date", IsoFormat(utc))

\* The test with a cutoff taken anew from the clock at each message.
FilterCutoffAnew(sd, a, c) == Cutoff(a.since, c).t

\* The test "if msg_utc < since_dt: continue" reads the cutoff main computed.
FilterCutoff(sd, a, c) == sd

\* The two tests that end in "continue".
Skipped(msg, sd, a, c) ==
    \/ Before(AsUTC(msg.date), FilterCutoff(sd, a, c))
    \/ IsBlank(msg.message)

\* isinstance(msg.media, MessageMediaPhoto)
HasPhoto(msg) == msg.media = "photo"

\* path = f"{int(time.time())}_{filename}" with filename f"tg_{msg.id}.jpg"
CoverPath(t, id) == [time |-> t, name |-> <<"tg", id>>]

\* The uploader returning the public URL whatever the store answered.
upload_cover_unchecked(res, path) == <<[bucket |-> "covers", path |-> path]>>

\* upload_cover_and_get_url: the public URL when the store's answer res is
\* truthy, None (<<>>) when it is not.
upload_cover_and_get_url(res, path) ==
    IF res THEN <<[bucket |-> "covers", path |-> path]>> ELSE <<>>

\* movie.cover_url = upload_cover_and_get_url(...)
SetCover(m, url) ==
    IF url # <<>> THEN Put(m, "cover_url", url[1])
    ELSE [k \in DOMAIN m \ {"cover_url"} |-> m[k]]

\* payload = the attributes that are not None, and user_id by setdefault.
Payload(m, uid) ==
    IF uid # <<>> /\ "user_id" \notin DOMAIN m THEN Put(m, "user_id", uid[1]) ELSE m

\* An upsert that resolves conflicts on another column.
ConflictKeyLink == "link"

\* on_conflict="tg_message_id"
ConflictKey == "tg_message_id"

\* The row the store keeps when a payload meets the row of its key: the
\* payload's columns replace the row's, the others stay.
Merge(old, new) ==
    [k \in DOMAIN old \cup DOMAIN new |-> IF k \in DOMAIN new THEN new[k] ELSE old[k]]

\* The rows of table that conflict with payload on key.
Conflicts(t, payload, key) ==
    {i \in 1..Len(t) : key \in DOMAIN payload /\ key \in DOMAIN t[i]
                        /\ t[i][key] = payload[key]}

\* sb.table("movies").upsert(payload, on_conflict=...).execute(), accepted.
DbUpsert(t, payload) ==
    LET hit == Conflicts(t, payload, ConflictKey)
    IN  IF hit # {}
        THEN LET i == CHOOSE j \in hit : \A k \in hit : j <= k
             IN  [t EXCEPT ![i] = Merge(t[i], payload)]
        ELSE Append(t, payload)

\* ------------------------------------------------------------------------
\* main
\* ------------------------------------------------------------------------

Event(op, id, res, payload) == [op |-> op, id |-> id, res |-> res, payload |-> payload]

NoTime == Time(0, 0)

\* The globals and the locals of an invocation that has just been started.
Fresh(inv) ==
    /\ args = [login |-> inv.login, since |-> inv.since]
    /\ RLS_USER_UID = inv.uid
    /\ pc = "start"
    /\ client = "new"
    /\ now = NoTime
    /\ since_dt = NoTime
    /\ idx = 0
    /\ movie = EmptyDict
    /\ calls = <<>>

Init ==
    /\ clock = Clock0
    /\ channel \in Channels
    /\ table = <<>>
    /\ \E inv \in Invocations : Fresh(inv)
    /\ run = 1
    /\ ticks = 0
    /\ started_at = clock

\* now = utcnow() ... since_dt = now - delta: an OverflowError ends the run.
ParseArgs ==
    /\ pc = "start"
    /\ now' = clock
    /\ LET c == Cutoff(args.since, clock)
       IN  IF c.ok THEN since_dt' = c.t /\ pc' = "connect"
           ELSE since_dt' = since_dt /\ pc' = "raised"
    /\ UNCHANGED <<clock, channel, table, RLS_USER_UID, args, client, idx, movie,
                   run, ticks, started_at, calls>>

\* main without the test of args.login.
AfterStartSync(a) == "loop"

\* Where main goes after client.start().
AfterStart(a) == IF a.login THEN "login" ELSE "loop"

\* client = TelegramClient(...); await client.start()
Start ==
    /\ pc = "connect"
    /\ client' = "connected"
    /\ pc' = AfterStart(args)
    /\ UNCHANGED <<clock, channel, table, RLS_USER_UID, args, now, since_dt, idx,
                   movie, run, ticks, started_at, calls>>

\* if args.login: print(...); await client.disconnect(); return
LoginExit ==
    /\ pc = "login"
    /\ client' = "disconnected"
    /\ pc' = "done"
    /\ UNCHANGED <<clock, channel, table, RLS_USER_UID, args, now, since_dt, idx,
                   movie, run, ticks, started_at, calls>>

\* Where the loop goes once a message passed the two tests.
AfterBuild(msg) == IF HasPhoto(msg) THEN "download" ELSE "upsert"

\* iter_messages yields the next message: the two tests, then parse_movie and
\* the record, up to the first await of the loop's body.
FetchMessage ==
    /\ pc = "loop"
    /\ idx < Len(channel)
    /\ LET msg == channel[idx + 1]
       IN  /\ idx' = idx + 1
           /\ calls' = Append(calls, Event("fetch", msg.id, "ok", EmptyDict))
           /\ IF Skipped(msg, since_dt, args, clock)
              THEN pc' = "loop" /\ movie' = movie
              ELSE /\ movie' = BuildMovie(msg, AsUTC(msg.date))
                   /\ pc' = AfterBuild(msg)
    /\ UNCHANGED <<clock, channel, table, RLS_USER_UID, args, client, now, since_dt,
                   run, ticks, started_at>>

\* iter_messages raises: nothing catches it.
FetchRaise ==
    /\ pc = "loop"
    /\ calls' = Append(calls, Event("fetch", 0, "raise", EmptyDict))
    /\ pc' = "raised"
    /\ UNCHANGED <<clock, channel, table, RLS_USER_UID, args, client, now, since_dt,
                   idx, movie, run, ticks, started_at>>

\* iter_messages is exhausted: the loop ends.
FetchEnd ==
    /\ pc = "loop"
    /\ idx = Len(channel)
    /\ pc' = "disconnect"
    /\ UNCHANGED <<clock, channel, table, RLS_USER_UID, args, client, now, since_dt,
                   idx, movie, run, ticks, started_at, calls>>

\* A download whose exception is swallowed: the record is upserted without cover.
AfterDownloadSwallowed(res) == IF res = "bytes" THEN "upload" ELSE "upsert"

\* Where the loop goes after download_media: it raised, or returned bytes, or
\* returned nothing ("if b:" fails).
AfterDownload(res) ==
    CASE res = "raise" -> "raised"
      [] res = "bytes" -> "upload"
      [] res = "empty" -> "upsert"

\* b = await client.download_media(msg, file=bytes)
Download ==
    /\ pc = "download"
    /\ \E res \in {"bytes", "empty", "raise"} :
          /\ calls' = Append(calls, Event("download", channel[idx].id, res, EmptyDict))
          /\ pc' = AfterDownload(res)
    /\ UNCHANGED <<clock, channel, table, RLS_USER_UID, args, client, now, since_dt,
                   idx, movie, run, ticks, started_at>>

\* movie.cover_url = upload_cover_and_get_url(b, f"tg_{msg.id}.jpg")
Upload ==
    /\ pc = "upload"
    /\ \E res \in BOOLEAN :
          /\ calls' = Append(calls, Event("upload", channel[idx].id,
                                          IF res THEN "ok" ELSE "fail", EmptyDict))
          /\ movie' = SetCover(movie,
                         upload_cover_and_get_url(res, CoverPath(clock, channel[idx].id)))
    /\ pc' = "upsert"
    /\ UNCHANGED <<clock, channel, table, RLS_USER_UID, args, client, now, since_dt,
                   idx, run, ticks, started_at>>

\* An upsert_movie that raises when resp.error is set.
AfterUpsertRaising(res) == IF res = "error" THEN "raised" ELSE "loop"

\* Where the loop goes after upsert_movie: resp.error is printed, no more.
AfterUpsert(res) == "loop"

\* upsert_movie(movie); print(f"Synced message ...")
Upsert ==
    /\ pc = "upsert"
    /\ LET payload == Payload(movie, RLS_USER_UID)
           id == movie["tg_message_id"]
       IN  \E res \in {"ok", "error"} :
              /\ calls' = Append(calls, Event("upsert", id, res, payload))
              /\ table' = IF res = "ok" THEN DbUpsert(table, payload) ELSE table
              /\ pc' = AfterUpsert(res)
    /\ UNCHANGED <<clock, channel, RLS_USER_UID, args, client, now, since_dt, idx,
                   movie, run, ticks, started_at>>

\* await client.disconnect() after the loop
Disconnect ==
    /\ pc = "disconnect"
    /\ client' = "disconnected"
    /\ pc' = "done"
    /\ UNCHANGED <<clock, channel, table, RLS_USER_UID, args, now, since_dt, idx,
                   movie, run, ticks, started_at, calls>>

\* The script is run again (by hand or by cron), over the same channel.
NewRun ==
    /\ pc \in {"done", "raised"}
    /\ run < MaxRuns
    /\ run' = run + 1
    /\ started_at' = clock
    /\ \E inv \in Invocations :
          /\ args' = [login |-> inv.login, since |-> inv.since]
          /\ RLS_USER_UID' = inv.uid
          /\ pc' = "start"
          /\ client' = "new"
          /\ now' = NoTime
          /\ since_dt' = NoTime
          /\ idx' = 0
          /\ movie' = EmptyDict
          /\ calls' = <<>>
    /\ UNCHANGED <<clock, channel, table, ticks>>

\* Time passes while main awaits the next message, or between two invocations
\* (the clock is read when main starts and when a cover is uploaded).
Tick ==
    /\ pc \in {"loop", "done", "raised"}
    /\ ticks < MaxTicks
    /\ ticks' = ticks + 1
    /\ clock' = ShiftMinutes(clock, TickMinutes)
    /\ UNCHANGED <<channel, table, RLS_USER_UID, args, pc, client, now, since_dt, idx,
                   movie, run, started_at, calls>>

Next ==
    \/ ParseArgs
    \/ Start
    \/ LoginExit
    \/ FetchMessage
    \/ FetchRaise
    \/ FetchEnd
    \/ Download
    \/ Upload
    \/ Upsert
    \/ Disconnect
    \/ NewRun
    \/ Tick

Spec == Init /\ [][Next]_vars

\* ------------------------------------------------------------------------
\* The parser on its own: one message of any body within the bounds, at the
\* point where iter_messages yields it
\* ------------------------------------------------------------------------

Repeat(c, n) == [i \in 1..n |-> c]

\* The lines a body is made of.
LineTitle == <<"T", "i", "t", "l", "e", ":", " ", "I", "n", "c", "e", "p", "t", "i", "o", "n">>
LineDirector == <<"D", "i", "r", "e", "c", "t", "o", "r", ":", " ", "C", ".", " ", "N", "o", "l", "a", "n">>
LineGenre == <<"G", "e", "n", "r", "e", ":", " ", "S", "c", "i", "-", "F", "i">>
LineTitleLower == <<"t", "i", "t", "l", "e", ":", "\t", " ", "T", "e", "n", "e", "t", " ">>
LineDirectorWide == <<"D", "I", "R", "E", "C", "T", "O", "R", "U+FF1A", "R", ".", " ", " ", "S", "c", "o", "t", "t">>
LinePlain == <<" ", "H", "e", "a", "t", " ", " ", "1", "9", "9", "5">>
LineBlank == <<" ", "\t">>
LineLinkSpaced == <<"L", "i", "n", "k", ":", " ", "a", " ", "b">>
LineTitleEmpty == <<"T", "i", "t", "l", "e", ":">>
LineTitleFa == <<"U+0639", "U+0646", "U+0648", "U+0627", "U+0646", ":", " ", "D", "u", "n", "e">>
LineLong == Repeat("x", TitleMax + 1)
LineLongSpaced == Repeat("x", TitleMax - 1) \o <<" ", "y", "z">>

LinePool ==
    {LineTitle, LineDirector, LineGenre, LineTitleLower, LineDirectorWide, LinePlain,
     LineBlank, LineLinkSpaced, LineTitleEmpty, LineTitleFa, LineLong, LineLongSpaced}

\* "\n".join(ls)
RECURSIVE JoinLines(_)
JoinLines(ls) ==
    IF ls = <<>> THEN <<>>
    ELSE IF Len(ls) = 1 THEN ls[1]
    ELSE ls[1] \o <<"\n">> \o JoinLines(Tail(ls))

Bodies == {JoinLines(ls) : ls \in UNION {[1..n -> LinePool] : n \in 0..MaxLines}}

InitParse ==
    /\ clock = Clock0
    /\ \E body \in Bodies :
          channel = <<[id |-> 1, posted |-> Clock0, date |-> Naive(Clock0),
                       message |-> body, media |-> "none"]>>
    /\ table = <<>>
    /\ RLS_USER_UID = <<>>
    /\ args = [login |-> FALSE, since |-> SinceHour]
    /\ pc = "loop"
    /\ client = "connected"
    /\ now = Clock0
    /\ since_dt = Cutoff(SinceHour, Clock0).t
    /\ idx = 0
    /\ movie = EmptyDict
    /\ calls = <<>>
    /\ run = 1
    /\ ticks = 0
    /\ started_at = Clock0

SpecParse == InitParse /\ [][FetchMessage]_vars

\* ------------------------------------------------------------------------
\* The lookback window on its own: any --since within the pool, at the start
\* of main
\* ------------------------------------------------------------------------

SincePrefixes == {<<>>, <<" ">>, <<"-">>}

SinceDigits ==
    {<<>>, <<"0">>, <<"7">>, <<"3", "0">>, <<"4", "5">>, <<"9", "0">>,
     <<"7", "3", "9", "9", "2", "0">>, <<"7", "3", "9", "9", "2", "1">>,
     <<"9", "9", "9", "9", "9", "9">>,
     <<"1", "0", "0", "0", "0", "0", "0", "0", "0", "0">>}

SinceSuffixes == {<<>>, <<"d">>, <<"h">>, <<"m">>, <<"D">>, <<"w">>, <<"d", "d">>, <<"d", " ">>}

SinceInputs ==
    {SinceBad} \cup {p \o ds \o u : p \in SincePrefixes, ds \in SinceDigits, u \in SinceSuffixes}

\* 2026-11-01 12:00 and 00:00, 2027-03-01 23:59
SinceClocks == {Clock0, Time(739921, 0), Time(740041, 24 * 60 - 1)}

InitSince ==
    /\ clock \in SinceClocks
    /\ channel = <<>>
    /\ table = <<>>
    /\ \E since \in SinceInputs : Fresh([login |-> FALSE, since |-> since, uid |-> <<>>])
    /\ run = 1
    /\ ticks = 0
    /\ started_at = clock

SpecSince == InitSince /\ [][ParseArgs]_vars

\* ------------------------------------------------------------------------
\* What the properties speak of
\* ------------------------------------------------------------------------

\* The match of line ln against the patterns of the ki-th attribute.
LabelMatch(ki, ln) == FirstMatch(FIELD_PATTERNS[ki].pats, 1, ln)

\* The attribute whose label line ln is (its place in FIELD_PATTERNS), 0 if none.
KeyOf(ln) ==
    IF \E ki \in 1..Len(FIELD_PATTERNS) : LabelMatch(ki, ln).ok
    THEN CHOOSE ki \in 1..Len(FIELD_PATTERNS) :
            /\ LabelMatch(ki, ln).ok
            /\ \A kj \in 1..(ki - 1) : ~LabelMatch(kj, ln).ok
    ELSE 0

\* The value of a label line, as it is stored: trimmed, whitespace compacted.
ValueOf(ln) == Compact(Strip(LabelMatch(KeyOf(ln), ln).g))

\* The message the parser's specification parses, once it has been yielded.
ParsedBody == channel[1].message

\* The events of this invocation's calls with the given operation.
EventsOf(op) == {k \in 1..Len(calls) : calls[k].op = op}

\* The message of the channel with the given id.
MsgById(id) == channel[CHOOSE i \in 1..Len(channel) : channel[i].id = id]

\* The cutoff of this invocation as the specification states it: the UTC time
\* at the start of the run minus the window.
StatedCutoff == Cutoff(args.since, started_at).t

\* A message the run has to upsert: not older than the cutoff, not blank.
Qualifies(msg) == ~Before(msg.posted, StatedCutoff) /\ ~IsBlank(msg.message)

\* No call of this invocation failed.
NoFailure == \A k \in 1..Len(calls) : calls[k].res \in {"ok", "bytes"}

\* The rows of the table with the given message id.
RowsOf(id) == {i \in 1..Len(table) : "tg_message_id" \in DOMAIN table[i]
                                      /\ table[i]["tg_message_id"] = id}

\* Row r carries every column of payload p.
Carries(r, p) == \A k \in DOMAIN p : k \in DOMAIN r /\ r[k] = p[k]

\* ------------------------------------------------------------------------
\* Properties of the parser (SpecParse)
\* ------------------------------------------------------------------------

\* C1: a body whose lines are label lines of pairwise distinct attributes
\* yields every one of these attributes with its line's value; the body
\* "Title: Inception / Director: C. Nolan / Genre: Sci-Fi" without a photo
\* yields title, director and genre, no cover_url, and goes to the upsert
\* under its message id.
C1_DistinctLabelsAllExtracted ==
    (idx = 1 /\ ~IsBlank(ParsedBody)) =>
        LET ls == Lines(ParsedBody)
        IN  /\ ( /\ \A i \in 1..Len(ls) : KeyOf(ls[i]) # 0
                 /\ \A i, j \in 1..Len(ls) : KeyOf(ls[i]) = KeyOf(ls[j]) => i = j )
               => \A i \in 1..Len(ls) :
                     LET key == FIELD_PATTERNS[KeyOf(ls[i])].key
                     IN  key \in DOMAIN movie /\ movie[key] = ValueOf(ls[i])
            /\ ParsedBody = InceptionBody =>
                  /\ pc = "upsert"
                  /\ movie["tg_message_id"] = channel[1].id
                  /\ "cover_url" \notin DOMAIN movie
                  /\ {"title", "director", "genre"} \subseteq DOMAIN movie
                  /\ movie["title"] = <<"I", "n", "c", "e", "p", "t", "i", "o", "n">>
                  /\ movie["director"] = <<"C", ".", " ", "N", "o", "l", "a", "n">>
                  /\ movie["genre"] = <<"S", "c", "i", "-", "F", "i">>

\* C2: when two or more lines of a body are label lines of the same attribute,
\* the value returned for it is that of the first of them.
C2_FirstOccurrenceWins ==
    (idx = 1 /\ ~IsBlank(ParsedBody)) =>
        LET ls == Lines(ParsedBody)
        IN  \A ki \in 1..Len(FIELD_PATTERNS) :
               LET hits == {i \in 1..Len(ls) : KeyOf(ls[i]) = ki}
                   first == CHOOSE i \in hits : \A j \in hits : i <= j
                   key == FIELD_PATTERNS[ki].key
               IN  Cardinality(hits) >= 2 =>
                      key \in DOMAIN movie /\ movie[key] = ValueOf(ls[first])

\* C4: the record of a non-blank body has a non-empty title: the value of one
\* of its title-label lines if there is one, and otherwise its first non-empty
\* trimmed line cut to 200 characters, whitespace compacted; a blank body
\* yields no record.
C4_TitleAlwaysPopulated ==
    idx = 1 =>
        IF IsBlank(ParsedBody) THEN pc = "loop" /\ movie = EmptyDict
        ELSE LET ls == Lines(ParsedBody)
                 titled == {i \in 1..Len(ls) : LabelMatch(1, ls[i]).ok}
             IN  /\ pc = "upsert"
                 /\ "title" \in DOMAIN movie
                 /\ movie["title"] # <<>>
                 /\ IF titled # {}
                    THEN \E i \in titled :
                            movie["title"] = Compact(Strip(LabelMatch(1, ls[i]).g))
                    ELSE /\ Len(movie["title"]) <= TitleMax
                         /\ movie["title"] = Compact(Take(ls[1], TitleMax))

\* C4's case: a body without a title line whose first line is longer than the
\* bound has been parsed.
C4_Witness ==
    /\ idx = 1
    /\ ~IsBlank(ParsedBody)
    /\ \A i \in 1..Len(Lines(ParsedBody)) : ~LabelMatch(1, Lines(ParsedBody)[i]).ok
    /\ Len(Lines(ParsedBody)[1]) > TitleMax
    /\ Len(Lines(ParsedBody)) >= 2
    /\ pc = "upsert"

\* ------------------------------------------------------------------------
\* Properties of the lookback window (SpecSince)
\* ------------------------------------------------------------------------

\* A string of the form <integer><unit>, unit one of d, h, m (surrounding
\* whitespace apart).
IsWindow(since) ==
    LET w == Strip(since)
    IN  /\ Len(w) >= 2
        /\ w[Len(w)] \in {"d", "h", "m"}
        /\ \A i \in 1..(Len(w) - 1) : IsDigit(w[i])

\* The minutes of one unit.
UnitMinutes(u) == CASE u = "d" -> 24 * 60 [] u = "h" -> 60 [] u = "m" -> 1

\* The minutes from datetime.min to t.
ToMinutes(t) == (t.d - 1) * (24 * 60) + t.m

\* C7: once the arguments are parsed the run goes on with a cutoff, no error
\* raised: now minus the stated days, hours or minutes for a window of the form
\* <integer><unit>, now minus 30 days for any other string.
C7_CutoffFromWindow ==
    pc # "start" =>
        /\ pc = "connect"
        /\ now = started_at
        /\ IF IsWindow(args.since)
           THEN LET w == Strip(args.since)
                IN  ToMinutes(since_dt) =
                       ToMinutes(now) - ToInt(SubSeq(w, 1, Len(w) - 1), 0) * UnitMinutes(w[Len(w)])
           ELSE ToMinutes(since_dt) = ToMinutes(now) - 30 * (24 * 60)

\* What holds of the code: the same, unless the window reaches back before
\* datetime.min (or is longer than timedelta.max), where OverflowError ends the
\* run before the client is started.
C7_CutoffWithinRange ==
    pc # "start" =>
        /\ now = started_at
        /\ IF IsWindow(args.since)
           THEN LET w == Strip(args.since)
                    val == ToInt(SubSeq(w, 1, Len(w) - 1), 0)
                    days == CASE w[Len(w)] = "d" -> val
                              [] w[Len(w)] = "h" -> val \div 24
                              [] w[Len(w)] = "m" -> val \div (24 * 60)
                IN  IF days > now.d - 1 \/ pc = "raised"
                    THEN pc = "raised"
                         /\ (days < now.d - 1 =>
                               ToMinutes(now) < val * UnitMinutes(w[Len(w)]))
                    ELSE /\ pc = "connect"
                         /\ ToMinutes(since_dt) = ToMinutes(now) - val * UnitMinutes(w[Len(w)])
           ELSE /\ pc = "connect"
                /\ ToMinutes(since_dt) = ToMinutes(now) - 30 * (24 * 60)

\* ------------------------------------------------------------------------
\* Properties of the sync driver (Spec)
\* ------------------------------------------------------------------------

\* C3 as stated: the table holds at most one row per message id, and the row of
\* an id this run has processed (called the upsert for: the most recent run to
\* do so) carries the non-empty fields of that upsert.
C3_RowCarriesLatestRun ==
    /\ \A i \in 1..Len(table) :
          /\ "tg_message_id" \in DOMAIN table[i]
          /\ RowsOf(table[i]["tg_message_id"]) = {i}
    /\ \A k \in EventsOf("upsert") :
          \A i \in RowsOf(calls[k].id) : Carries(table[i], calls[k].payload)

\* C3 as the code has it: at most one row per message id, a second upsert of
\* an id updating its row in place; the row carries the non-empty fields of
\* the most recent upsert of that id that the store accepted (an upsert that
\* reports an error leaves the table as it was).
C3_OneRowPerMessageId ==
    /\ \A i \in 1..Len(table) :
          /\ "tg_message_id" \in DOMAIN table[i]
          /\ RowsOf(table[i]["tg_message_id"]) = {i}
          /\ \E j \in 1..Len(channel) : channel[j].id = table[i]["tg_message_id"]
    /\ \A k \in EventsOf("upsert") :
          calls[k].res = "ok" =>
             /\ Cardinality(RowsOf(calls[k].id)) = 1
             /\ \A i \in RowsOf(calls[k].id) : Carries(table[i], calls[k].payload)

\* C3's case: a second run has upserted a message whose row the first run had
\* stored, and the row was updated in place: it has the second run's fields
\* and still the first run's cover, which the second run did not send.
C3_Witness ==
    /\ run = 2
    /\ \E k \in EventsOf("upsert") :
          /\ calls[k].res = "ok"
          /\ "cover_url" \notin DOMAIN calls[k].payload
          /\ \E i \in RowsOf(calls[k].id) :
                "cover_url" \in DOMAIN table[i] /\ Carries(table[i], calls[k].payload)

\* C5: a message that does not qualify (older than the cutoff taken at the
\* start of the run, or blank) gets no record, no download, no upload and no
\* upsert; when a sync run in which no call failed is done, the messages it
\* upserted are exactly the qualifying ones, each once, however far in the
\* future they are dated, and their rows are stored.
C5_UpsertedIffQualifies ==
    ~args.login =>
        /\ \A k \in 1..Len(calls) :
              calls[k].op # "fetch" => Qualifies(MsgById(calls[k].id))
        /\ "tg_message_id" \in DOMAIN movie => Qualifies(MsgById(movie["tg_message_id"]))
        /\ pc \notin {"start", "raised"} => since_dt = StatedCutoff
        /\ (pc = "done" /\ NoFailure) =>
              \A i \in 1..Len(channel) :
                 LET ups == {k \in EventsOf("upsert") : calls[k].id = channel[i].id}
                 IN  IF Qualifies(channel[i])
                     THEN /\ Cardinality(ups) = 1
                          /\ \A k \in ups : \E r \in RowsOf(channel[i].id) :
                                Carries(table[r], calls[k].payload)
                     ELSE ups = {}

\* C5's case: a finished run without failure, during which the clock advanced
\* so far that a cutoff taken anew would have excluded a message that was
\* upserted, a message dated after the start of the run, and which skipped
\* another message.
C5_Witness ==
    /\ ~args.login
    /\ pc = "done"
    /\ NoFailure
    /\ clock # started_at
    /\ \E k \in EventsOf("upsert") :
          /\ Before(MsgById(calls[k].id).posted, Cutoff(args.since, clock).t)
          /\ Before(started_at, MsgById(calls[k].id).posted)
    /\ \E i \in 1..Len(channel) : ~Qualifies(channel[i])

\* C6: an upsert that reports an error does not end the run and is not
\* retried: main goes on with the loop (and on to its end when no message is
\* left), the message gets no second upsert, and
\* when the run is done every later qualifying message has been upserted.
C6_UpsertErrorDoesNotHalt ==
    \A k \in EventsOf("upsert") :
        calls[k].res = "error" =>
            /\ k = Len(calls) => pc \in {"loop", "disconnect", "done"}
            /\ \A j \in EventsOf("upsert") : calls[j].id = calls[k].id => j = k
            /\ pc = "done" =>
                  \A i \in 1..Len(channel) :
                     (channel[i].id > calls[k].id /\ Qualifies(channel[i])) =>
                        \E j \in EventsOf("upsert") : j > k /\ calls[j].id = channel[i].id

\* C6's case: the run is done, an upsert reported an error and a later message
\* was upserted after it.
C6_Witness ==
    /\ pc = "done"
    /\ \E k, j \in EventsOf("upsert") :
          k < j /\ calls[k].res = "error" /\ calls[j].res = "ok"

\* C8: a login-only run calls no service but the client: nothing is fetched,
\* downloaded, uploaded or upserted; it ends before the handshake only by the
\* window's error, and once done it has connected and disconnected.
C8_LoginOnlyProcessesNothing ==
    args.login =>
        /\ calls = <<>>
        /\ idx = 0
        /\ movie = EmptyDict
        /\ pc \in {"start", "raised", "connect", "login", "done"}
        /\ pc \in {"start", "raised", "connect"} => client = "new"
        /\ pc = "login" => client = "connected"
        /\ pc = "done" => client = "disconnected"

\* C8's case: a login-only run over a channel that holds messages is done.
C8_Witness == args.login /\ pc = "done" /\ Len(channel) >= 2 /\ client = "disconnected"

\* C9: a message gets at most one upload, made right after its download
\* returned bytes, the message carrying a photo, and before its upsert; the
\* upserted record has a cover_url exactly when that upload succeeded; after a
\* failed upload the record has no cover_url and is upserted next.
C9_OneUploadBeforeUpsert ==
    /\ \A k \in EventsOf("upload") :
          /\ \A j \in EventsOf("upload") : calls[j].id = calls[k].id => j = k
          /\ k > 1
          /\ calls[k - 1] = Event("download", calls[k].id, "bytes", EmptyDict)
          /\ HasPhoto(MsgById(calls[k].id))
          /\ k = Len(calls) =>
                /\ pc = "upsert"
                /\ movie["tg_message_id"] = calls[k].id
                /\ ("cover_url" \in DOMAIN movie) = (calls[k].res = "ok")
          /\ k < Len(calls) =>
                /\ calls[k + 1].op = "upsert"
                /\ calls[k + 1].id = calls[k].id
    /\ \A k \in EventsOf("upsert") :
          /\ \A j \in EventsOf("upload") : calls[j].id = calls[k].id => j < k
          /\ ("cover_url" \in DOMAIN calls[k].payload)
                = (\E j \in EventsOf("upload") : calls[j].id = calls[k].id /\ calls[j].res = "ok")

\* C9's case: one message was upserted with the cover its upload returned,
\* another without one after its upload failed.
C9_Witness ==
    \E k, j \in EventsOf("upload") :
        /\ calls[k].res = "ok"
        /\ calls[j].res = "fail"
        /\ j + 1 \in EventsOf("upsert")
        /\ k + 1 \in EventsOf("upsert")
        /\ "cover_url" \in DOMAIN calls[k + 1].payload
        /\ "cover_url" \notin DOMAIN calls[j + 1].payload

\* C10: a fetch or a download that raises ends the run there: it is the run's
\* last call, the message whose download raised is not upserted, no later
\* message is yielded, and the rows upserted before it are stored.
C10_FetchFailureAborts ==
    \A k \in 1..Len(calls) :
        calls[k].res = "raise" =>
            /\ k = Len(calls)
            /\ pc = "raised"
            /\ client = "connected"
            /\ calls[k].op = "download" =>
                  /\ \A j \in EventsOf("upsert") : calls[j].id # calls[k].id
                  /\ channel[idx].id = calls[k].id
            /\ Cardinality({j \in EventsOf("fetch") : calls[j].res = "ok"}) = idx
            /\ \A j \in EventsOf("upsert") :
                  calls[j].res = "ok" =>
                     \E r \in RowsOf(calls[j].id) : Carries(table[r], calls[j].payload)

\* C10's case: a download raised before a later message, which qualifies, was
\* yielded, the table holding a row.
C10_Witness ==
    /\ pc = "raised"
    /\ calls # <<>>
    /\ calls[Len(calls)].op = "download"
    /\ calls[Len(calls)].res = "raise"
    /\ idx < Len(channel)
    /\ Qualifies(channel[Len(channel)])
    /\ table # <<>>

====
